---- MODULE Spec2Model ----
(***************************************************************************)
(* Model of 06-sustainability/scripts/carbon_footprint_check.py: main()    *)
(* and the four phases it runs in sequence.  Strings whose characters      *)
(* matter (instance types, service names) are sequences of one-character   *)
(* strings.  Money is counted in mills (1/1000 dollar), so the floor       *)
(* 0.01 is 10.  The account that is queried (inventory, metrics, costs,    *)
(* optimizer summaries, and which calls fail with which exception) is the  *)
(* variable env, fixed when the run starts.                                *)
(***************************************************************************)
EXTENDS Integers, Sequences, FiniteSets, TLC

VARIABLES env, pc, out, calls, exit_status, raised,
          instances, idx, graviton_count, x86_count, low_utilization,
          services, total_cost

vars == <<env, pc, out, calls, exit_status, raised,
          instances, idx, graviton_count, x86_count, low_utilization,
          services, total_cost>>

(* ------------------------------ bounds -------------------------------- *)
MaxTypeLen == 3
MaxSamples == 3
MaxInstances == 3
MaxGroups == 3
MaxNames == 3

(* ------------------------- program constants -------------------------- *)
LowCpuThreshold == 5
ArmSuggestBelow == 50
CostFloorMills == 10
TopN == 10
SuggestTopN == 5
BarWidth == 30

(* ------------------------- sequence helpers --------------------------- *)
SeqsUpTo(S, n) == UNION {[1..k -> S] : k \in 0..n}

RECURSIVE SumSeq(_)
SumSeq(s) == IF s = <<>> THEN 0 ELSE Head(s) + SumSeq(Tail(s))

RECURSIVE Flatten(_)
Flatten(ss) == IF ss = <<>> THEN <<>> ELSE Head(ss) \o Flatten(Tail(ss))

MinOf(S) == CHOOSE x \in S : \A y \in S : x <= y

(* f"{x:.1f}" of the rational num/den >= 0, in tenths: the nearest tenth,  *)
(* an exact half going to the even neighbour.                              *)
RoundTenths(num, den) ==
    LET q == (num * 10) \div den
        r == (num * 10) % den
    IN  IF 2 * r < den THEN q
        ELSE IF 2 * r > den THEN q + 1
        ELSE IF q % 2 = 0 THEN q ELSE q + 1

(* ------------------------- string operations -------------------------- *)
(* instance_type.split(".")[0] *)
FamilyOf(instance_type) ==
    LET dots == {i \in 1..Len(instance_type) : instance_type[i] = "."}
    IN  IF dots = {} THEN instance_type
        ELSE SubSeq(instance_type, 1, MinOf(dots) - 1)

(* s.endswith(c) for a one-character c *)
EndsWith(s, c) == Len(s) > 0 /\ s[Len(s)] = c

(* s[1:], which is "" for a string shorter than two characters *)
SliceFrom1(s) == IF Len(s) = 0 THEN <<>> ELSE SubSeq(s, 2, Len(s))

(* c in s for a one-character c *)
HasChar(s, c) == \E i \in 1..Len(s) : s[i] = c

is_graviton_all(family) == HasChar(family, "g")

is_graviton(family) == EndsWith(family, "g") \/ HasChar(SliceFrom1(family), "g")

(* ------------------------------ output -------------------------------- *)
IsEmpty_never(items) == FALSE

(* "if not instances:", "if not services:", "if not summaries:" *)
IsEmpty(items) == items = <<>>

Tok(sec, kind, v) == [sec |-> sec, kind |-> kind, v |-> v]

Emit(toks) == out' = out \o toks

(* ------------------------- the queried account ------------------------ *)
T4gMicro == <<"t", "4", "g", ".", "m", "i", "c", "r", "o">>
M5Large == <<"m", "5", ".", "l", "a", "r", "g", "e">>
C6gXlarge == <<"c", "6", "g", ".", "x", "l", "a", "r", "g", "e">>

TypeChars == {"g", "t", "4", "."}
CpuValues == {2, 5, 8}

MetricOk(dps) == [kind |-> "ok", code |-> "", Datapoints |-> dps]
MetricClientError(code) == [kind |-> "ClientError", code |-> code, Datapoints |-> <<>>]
MetricOtherError == [kind |-> "OtherError", code |-> "", Datapoints |-> <<>>]

Inst(type, metric) == [InstanceType |-> type, metric |-> metric]

(* InstanceId is the position in the inventory *)
WithIds(is) == [k \in 1..Len(is) |-> [InstanceId |-> k,
                                      InstanceType |-> is[k].InstanceType,
                                      metric |-> is[k].metric]]

(* --------------------------- main: sequencing ------------------------- *)
(* the order in which main() calls the phases after create_session *)
PhaseAfter_swapped(phase) ==
    CASE phase = "create_session" -> "ec2"
      [] phase = "ec2" -> "optimizer"
      [] phase = "optimizer" -> "cost"
      [] phase = "cost" -> "tips"
      [] phase = "tips" -> "footer"
      [] OTHER -> "exited"

PhaseAfter(phase) ==
    CASE phase = "create_session" -> "ec2"
      [] phase = "ec2" -> "cost"
      [] phase = "cost" -> "optimizer"
      [] phase = "optimizer" -> "tips"
      [] phase = "tips" -> "footer"
      [] OTHER -> "exited"

(* an exception that no except clause catches leaves main(): the           *)
(* interpreter reports it and the process ends with status 1               *)
Uncaught(exc) ==
    /\ raised' = exc
    /\ exit_status' = 1
    /\ pc' = "exited"

ec2_locals == <<instances, idx, graviton_count, x86_count, low_utilization>>
cost_locals == <<services, total_cost>>

(* main(), up to the call of create_session: the header *)
main_header ==
    /\ pc = "main"
    /\ Emit(<<Tok("header", "banner", 0)>>)
    /\ pc' = "create_session"
    /\ UNCHANGED <<env, calls, exit_status, raised, ec2_locals, cost_locals>>

(* ---------------------------- create_session -------------------------- *)
create_session ==
    /\ pc = "create_session"
    /\ CASE env.session = "ok" ->
              /\ calls' = Append(calls, "sts:GetCallerIdentity")
              /\ Emit(<<Tok("session", "identity", 0)>>)
              /\ pc' = PhaseAfter("create_session")
              /\ UNCHANGED <<exit_status, raised>>
         [] env.session = "NoCredentialsError" ->
              /\ calls' = Append(calls, "sts:GetCallerIdentity")
              /\ Emit(<<Tok("session", "credentials_help", 0)>>)
              /\ exit_status' = 1
              /\ pc' = "exited"
              /\ UNCHANGED raised
         [] env.session = "ProfileNotFound" ->
              /\ Emit(<<Tok("session", "profile_help", 0)>>)
              /\ exit_status' = 1
              /\ pc' = "exited"
              /\ UNCHANGED <<calls, raised>>
         [] OTHER ->
              (* ClientError or another exception of the identity probe *)
              /\ calls' = Append(calls, "sts:GetCallerIdentity")
              /\ Uncaught(env.session)
              /\ UNCHANGED out
    /\ UNCHANGED <<env, ec2_locals, cost_locals>>

(* ------------------------- check_ec2_utilization ---------------------- *)
(* avg_cpu: None, or the mean sum/n of the daily averages *)
NoAvg == [avail |-> FALSE, sum |-> 0, n |-> 1]

AvgCpu(datapoints) ==
    IF datapoints # <<>>
    THEN [avail |-> TRUE, sum |-> SumSeq(datapoints), n |-> Len(datapoints)]
    ELSE NoAvg

IsLowUtilization_inclusive(avg_cpu) ==
    avg_cpu.avail /\ avg_cpu.sum <= LowCpuThreshold * avg_cpu.n

(* avg_cpu is not None and avg_cpu < 5.0 *)
IsLowUtilization(avg_cpu) ==
    avg_cpu.avail /\ avg_cpu.sum < LowCpuThreshold * avg_cpu.n

SuggestArm_inclusive(g, x) == g * 100 <= ArmSuggestBelow * (g + x)

(* graviton_count / (graviton_count + x86_count) * 100 < 50 *)
SuggestArm(g, x) == g * 100 < ArmSuggestBelow * (g + x)

RowTok(instance, arm, avg_cpu) ==
    Tok("util", "row",
        [id |-> instance.InstanceId,
         type |-> instance.InstanceType,
         arch |-> IF arm THEN "ARM(Graviton)" ELSE "x86",
         cpu_avail |-> avg_cpu.avail,
         cpu_tenths |-> IF avg_cpu.avail
                        THEN RoundTenths(avg_cpu.sum, avg_cpu.n) ELSE 0])

(* lines 89-113: banner, describe_instances, the empty case *)
check_ec2_utilization ==
    /\ pc = "ec2"
    /\ calls' = Append(calls, "ec2:DescribeInstances")
    /\ CASE env.describe = "ok" ->
              LET found == Flatten(env.Reservations) IN
              /\ instances' = found
              /\ idx' = 1
              /\ graviton_count' = 0
              /\ x86_count' = 0
              /\ low_utilization' = <<>>
              /\ IF IsEmpty(found)
                 THEN /\ Emit(<<Tok("util", "banner", 0),
                                Tok("util", "no_instances", 0)>>)
                      /\ pc' = PhaseAfter("ec2")
                 ELSE /\ Emit(<<Tok("util", "banner", 0),
                                Tok("util", "count", Len(found))>>)
                      /\ pc' = "ec2_loop"
              /\ UNCHANGED <<exit_status, raised>>
         [] env.describe = "ClientError" ->
              /\ Emit(<<Tok("util", "banner", 0), Tok("util", "error", 0)>>)
              /\ pc' = PhaseAfter("ec2")
              /\ UNCHANGED <<exit_status, raised, ec2_locals>>
         [] OTHER ->
              /\ Emit(<<Tok("util", "banner", 0)>>)
              /\ Uncaught(env.describe)
              /\ UNCHANGED ec2_locals
    /\ UNCHANGED <<env, cost_locals>>

(* lines 123-188: one iteration of the loop over the instances *)
check_ec2_utilization_instance ==
    /\ pc = "ec2_loop"
    /\ idx <= Len(instances)
    /\ LET instance == instances[idx]
           family == FamilyOf(instance.InstanceType)
           arm == is_graviton(family)
           m == instance.metric
           avg_cpu == IF m.kind = "ok" THEN AvgCpu(m.Datapoints) ELSE NoAvg
           notice == IF m.kind = "ok" THEN <<>>
                     ELSE IF m.code \in {"AccessDeniedException", "AccessDenied"}
                     THEN <<Tok("util", "notice_permission", instance.InstanceId)>>
                     ELSE <<Tok("util", "notice_failure", instance.InstanceId)>>
           low == IsLowUtilization(avg_cpu)
       IN
       /\ graviton_count' = IF arm THEN graviton_count + 1 ELSE graviton_count
       /\ x86_count' = IF arm THEN x86_count ELSE x86_count + 1
       /\ calls' = Append(calls, "cloudwatch:GetMetricStatistics")
       /\ IF m.kind \in {"ok", "ClientError"}
          THEN /\ Emit(notice \o <<RowTok(instance, arm, avg_cpu)>>
                       \o (IF low
                           THEN <<Tok("util", "low_warning", instance.InstanceId)>>
                           ELSE <<>>))
               /\ low_utilization' =
                     IF low THEN Append(low_utilization, instance.InstanceId)
                     ELSE low_utilization
               /\ idx' = idx + 1
               /\ UNCHANGED <<pc, exit_status, raised>>
          ELSE /\ Uncaught(m.kind)
               /\ UNCHANGED <<out, low_utilization, idx>>
    /\ UNCHANGED <<env, instances, cost_locals>>

(* lines 190-202: the run totals *)
check_ec2_utilization_summary ==
    /\ pc = "ec2_loop"
    /\ idx > Len(instances)
    /\ Emit(<<Tok("util", "summary", [arm |-> graviton_count, x86 |-> x86_count])>>
            \o (IF graviton_count + x86_count > 0
                THEN <<Tok("util", "ratio",
                           RoundTenths(graviton_count * 100,
                                       graviton_count + x86_count))>>
                     \o (IF SuggestArm(graviton_count, x86_count)
                         THEN <<Tok("util", "suggest_arm", 0)>> ELSE <<>>)
                ELSE <<>>)
            \o (IF low_utilization # <<>>
                THEN <<Tok("util", "low_count", Len(low_utilization))>>
                ELSE <<>>))
    /\ pc' = PhaseAfter("ec2")
    /\ UNCHANGED <<env, calls, exit_status, raised, ec2_locals, cost_locals>>

(* ------------------------- check_cost_by_service ---------------------- *)
(* sub in s, for strings as character sequences *)
Contains(s, sub) ==
    \E i \in 0..(Len(s) - Len(sub)) : SubSeq(s, i + 1, i + Len(sub)) = sub

KwEC2 == <<"E", "C", "2">>
KwRDS == <<"R", "D", "S">>
KwS3 == <<"S", "3">>
KwLambda == <<"L", "a", "m", "b", "d", "a">>
KwDynamoDB == <<"D", "y", "n", "a", "m", "o", "D", "B">>

IsMaterial_inclusive(cost) == cost >= CostFloorMills

(* cost > 0.01 *)
IsMaterial(cost) == cost > CostFloorMills

(* lines 237-243: the (service_name, cost) pairs appended, in query order *)
RECURSIVE Recorded(_)
Recorded(groups) ==
    IF groups = <<>> THEN <<>>
    ELSE LET g == Head(groups)
         IN  (IF IsMaterial(g.Amount)
              THEN <<[name |-> g.Key, cost |-> g.Amount]>> ELSE <<>>)
             \o Recorded(Tail(groups))

(* lines 234, 243: total_cost, accumulated over the appended pairs *)
RECURSIVE TotalOf(_)
TotalOf(svcs) == IF svcs = <<>> THEN 0 ELSE Head(svcs).cost + TotalOf(Tail(svcs))

RECURSIVE InsertDesc_before_equal(_, _)
InsertDesc_before_equal(s, e) ==
    IF s = <<>> THEN <<e>>
    ELSE IF Head(s).cost > e.cost
    THEN <<Head(s)>> \o InsertDesc_before_equal(Tail(s), e)
    ELSE <<e>> \o s

(* e put into the cost-descending list s behind every entry of at least its cost *)
RECURSIVE InsertDesc(_, _)
InsertDesc(s, e) ==
    IF s = <<>> THEN <<e>>
    ELSE IF Head(s).cost >= e.cost THEN <<Head(s)>> \o InsertDesc(Tail(s), e)
    ELSE <<e>> \o s

(* services.sort(key=lambda x: x[1], reverse=True): stable *)
RECURSIVE SortByCostDesc(_)
SortByCostDesc(svcs) ==
    IF svcs = <<>> THEN <<>>
    ELSE InsertDesc(SortByCostDesc(SubSeq(svcs, 1, Len(svcs) - 1)), svcs[Len(svcs)])

(* s[:n] *)
Take(s, n) == SubSeq(s, 1, IF Len(s) < n THEN Len(s) ELSE n)

Percentage_truncated(cost, total) ==
    IF total > 0 THEN ((cost * 100) \div total) * 10 ELSE 0

(* lines 257-258: cost / total_cost * 100, as f"{percentage:>5.1f}" shows it, *)
(* in tenths of a percent *)
Percentage(cost, total) == IF total > 0 THEN RoundTenths(cost * 100, total) ELSE 0

(* line 255: int(cost / total_cost * 30) *)
BarLength(cost, total) == IF total > 0 THEN (cost * BarWidth) \div total ELSE 0

CostRow(e, total) ==
    Tok("cost", "row", [name |-> e.name, cost |-> e.cost,
                        pct_tenths |-> Percentage(e.cost, total),
                        bar |-> BarLength(e.cost, total)])

SuggestionFor_s3_first(service_name) ==
    IF Contains(service_name, KwEC2) THEN <<"EC2">>
    ELSE IF Contains(service_name, KwS3) THEN <<"S3">>
    ELSE IF Contains(service_name, KwRDS) THEN <<"RDS">>
    ELSE IF Contains(service_name, KwLambda) THEN <<"Lambda">>
    ELSE IF Contains(service_name, KwDynamoDB) THEN <<"DynamoDB">>
    ELSE <<>>

(* lines 263-272: the if/elif chain over the service name *)
SuggestionFor(service_name) ==
    IF Contains(service_name, KwEC2) THEN <<"EC2">>
    ELSE IF Contains(service_name, KwRDS) THEN <<"RDS">>
    ELSE IF Contains(service_name, KwS3) THEN <<"S3">>
    ELSE IF Contains(service_name, KwLambda) THEN <<"Lambda">>
    ELSE IF Contains(service_name, KwDynamoDB) THEN <<"DynamoDB">>
    ELSE <<>>

(* lines 262-272: the loop over services[:5] *)
RECURSIVE Suggestions(_)
Suggestions(top) ==
    IF top = <<>> THEN <<>>
    ELSE LET k == SuggestionFor(Head(top).name)
         IN  (IF k = <<>> THEN <<>>
              ELSE <<Tok("cost", "suggestion", [for |-> Head(top).name, kw |-> k[1]])>>)
             \o Suggestions(Tail(top))

(* lines 254-258: the loop over services[:10] *)
RECURSIVE CostRows(_, _)
CostRows(top, total) ==
    IF top = <<>> THEN <<>>
    ELSE <<CostRow(Head(top), total)>> \o CostRows(Tail(top), total)

(* main() lines 450-454 and check_cost_by_service *)
check_cost_by_service ==
    /\ pc = "cost"
    /\ IF env.skip_cost
       THEN /\ Emit(<<Tok("cost", "skipped", 0)>>)
            /\ pc' = PhaseAfter("cost")
            /\ UNCHANGED <<calls, exit_status, raised, cost_locals>>
       ELSE /\ calls' = Append(calls, "ce:GetCostAndUsage")
            /\ CASE env.cost.kind = "ok" ->
                      LET recorded == Recorded(Flatten(env.cost.ResultsByTime))
                          total == TotalOf(recorded)
                          sorted == SortByCostDesc(recorded)
                      IN
                      /\ total_cost' = total
                      /\ IF IsEmpty(recorded)
                         THEN /\ services' = recorded
                              /\ Emit(<<Tok("cost", "banner", 0),
                                        Tok("cost", "no_cost", 0)>>)
                         ELSE /\ services' = sorted
                              /\ Emit(<<Tok("cost", "banner", 0),
                                        Tok("cost", "total", total)>>
                                      \o CostRows(Take(sorted, TopN), total)
                                      \o <<Tok("cost", "suggestions_banner", 0)>>
                                      \o Suggestions(Take(sorted, SuggestTopN)))
                      /\ pc' = PhaseAfter("cost")
                      /\ UNCHANGED <<exit_status, raised>>
                 [] env.cost.kind = "ClientError" ->
                      /\ Emit(<<Tok("cost", "banner", 0), Tok("cost", "error", 0)>>)
                      /\ pc' = PhaseAfter("cost")
                      /\ UNCHANGED <<exit_status, raised, cost_locals>>
                 [] OTHER ->
                      /\ Emit(<<Tok("cost", "banner", 0)>>)
                      /\ Uncaught(env.cost.kind)
                      /\ UNCHANGED cost_locals
    /\ UNCHANGED <<env, ec2_locals>>

(* ------------------------ check_compute_optimizer --------------------- *)
(* lines 313-326: the line of one finding; none for a count of 0 *)
FindingTok(finding) ==
    IF finding.value > 0
    THEN <<Tok("rec", "finding",
               [label |-> CASE finding.name = "OVER_PROVISIONED" -> "label_over"
                            [] finding.name = "UNDER_PROVISIONED" -> "label_under"
                            [] finding.name = "OPTIMIZED" -> "label_optimized"
                            [] finding.name = "NOT_OPTIMIZED" -> "label_not_optimized"
                            [] OTHER -> finding.name,
                value |-> finding.value])>>
    ELSE <<>>

IsOptInRequired_misspelt(error_code) == error_code = "OptInRequired"

(* line 332: error_code == "OptInRequiredException" *)
IsOptInRequired(error_code) == error_code = "OptInRequiredException"

RECURSIVE FindingToks(_)
FindingToks(findings) ==
    IF findings = <<>> THEN <<>>
    ELSE FindingTok(Head(findings)) \o FindingToks(Tail(findings))

(* lines 305-326: the loop over the summaries *)
RECURSIVE SummaryToks(_)
SummaryToks(summaries) ==
    IF summaries = <<>> THEN <<>>
    ELSE <<Tok("rec", "resource_type", Head(summaries).recommendationResourceType)>>
         \o FindingToks(Head(summaries).summaries)
         \o SummaryToks(Tail(summaries))

check_compute_optimizer ==
    /\ pc = "optimizer"
    /\ calls' = Append(calls, "compute-optimizer:GetRecommendationSummaries")
    /\ CASE env.optimizer.kind = "ok" ->
              /\ IF IsEmpty(env.optimizer.recommendationSummaries)
                 THEN Emit(<<Tok("rec", "banner", 0),
                             Tok("rec", "not_enabled_or_no_data", 0),
                             Tok("rec", "opt_in_howto", 0)>>)
                 ELSE Emit(<<Tok("rec", "banner", 0)>>
                           \o SummaryToks(env.optimizer.recommendationSummaries))
              /\ pc' = PhaseAfter("optimizer")
              /\ UNCHANGED <<exit_status, raised>>
         [] env.optimizer.kind = "ClientError" ->
              /\ IF IsOptInRequired(env.optimizer.code)
                 THEN Emit(<<Tok("rec", "banner", 0),
                             Tok("rec", "not_enabled", 0),
                             Tok("rec", "opt_in_howto", 0)>>)
                 ELSE Emit(<<Tok("rec", "banner", 0), Tok("rec", "error", 0)>>)
              /\ pc' = PhaseAfter("optimizer")
              /\ UNCHANGED <<exit_status, raised>>
         [] OTHER ->
              /\ Emit(<<Tok("rec", "banner", 0)>>)
              /\ Uncaught(env.optimizer.kind)
    /\ UNCHANGED <<env, ec2_locals, cost_locals>>

(* ------------------------ check_sustainability_tips ------------------- *)
Checklist == <<[category |-> "compute", items |-> 5],
               [category |-> "storage", items |-> 3],
               [category |-> "database", items |-> 3],
               [category |-> "network", items |-> 3],
               [category |-> "monitoring", items |-> 3]>>

check_sustainability_tips ==
    /\ pc = "tips"
    /\ Emit(<<Tok("checklist", "banner", 0)>>
            \o [k \in 1..Len(Checklist) |-> Tok("checklist", "category", Checklist[k])]
            \o <<Tok("checklist", "carbon_tool_howto", 0)>>)
    /\ pc' = PhaseAfter("tips")
    /\ UNCHANGED <<env, calls, exit_status, raised, ec2_locals, cost_locals>>

(* main() lines 462-470: the footer; main returns and the process ends with 0 *)
main_footer ==
    /\ pc = "footer"
    /\ Emit(<<Tok("footer", "banner", 0)>>)
    /\ pc' = PhaseAfter("footer")
    /\ exit_status' = 0
    /\ UNCHANGED <<env, calls, raised, ec2_locals, cost_locals>>

(* ----------------------- the accounts that are run -------------------- *)
Group(key, amount) == [Key |-> key, Amount |-> amount]

CostOk(buckets) == [kind |-> "ok", ResultsByTime |-> buckets]
CostFails(kind) == [kind |-> kind, ResultsByTime |-> <<>>]

OptOk(summaries) == [kind |-> "ok", code |-> "", recommendationSummaries |-> summaries]
OptFails(kind, code) == [kind |-> kind, code |-> code, recommendationSummaries |-> <<>>]

Env(skip_cost, session, describe, reservations, cost, optimizer) ==
    [skip_cost |-> skip_cost, session |-> session, describe |-> describe,
     Reservations |-> reservations, cost |-> cost, optimizer |-> optimizer]

T4gLarge == <<"t", "4", "g", ".", "l", "a", "r", "g", "e">>
M5Micro == <<"m", "5", ".", "m", "i", "c", "r", "o">>

NameEC2 == <<"A", "m", "z", " ", "E", "C", "2">>
NameS3 == <<"S", "3">>
NameRDS == <<"R", "D", "S">>
NameTax == <<"T", "a", "x">>
NameSupport == <<"S", "u", "p", "p", "o", "r", "t">>
PadName(k) == <<"P", "a", "d">> \o [i \in 1..k |-> "x"]

SomeSummaries ==
    <<[recommendationResourceType |-> "Ec2Instance",
       summaries |-> <<[name |-> "OVER_PROVISIONED", value |-> 2],
                       [name |-> "OPTIMIZED", value |-> 0],
                       [name |-> "FUTURE_FINDING", value |-> 1]>>]>>

SmallCost == CostOk(<<  <<Group(NameEC2, 120000), Group(NameS3, 30000),
                         Group(NameTax, 5)>>  >>)

(* every query outcome, on a small account *)
PipelineWorlds ==
    {Env(FALSE, s, "ok", <<>>, SmallCost, OptOk(<<>>)) :
        s \in {"NoCredentialsError", "ProfileNotFound", "ClientError", "OtherError"}}
    \cup
    {Env(skip, "ok", d, r, c, o) :
        skip \in BOOLEAN,
        d \in {"ok", "ClientError", "OtherError"},
        r \in {<<>>,
               << WithIds(<<Inst(T4gMicro, MetricOk(<<2>>))>>) >>,
               << WithIds(<<Inst(M5Large, MetricClientError("AccessDenied")),
                            Inst(T4gMicro, MetricOk(<<8>>))>>) >>,
               << WithIds(<<Inst(M5Large, MetricOtherError)>>) >>},
        c \in {SmallCost, CostOk(<<>>), CostFails("ClientError"),
               CostFails("OtherError")},
        o \in {OptOk(SomeSummaries), OptOk(<<>>),
               OptFails("ClientError", "OptInRequiredException"),
               OptFails("ClientError", "AccessDeniedException"),
               OptFails("OtherError", "")}}

Quiet(reservations, cost) ==
    Env(cost = CostOk(<<>>), "ok", "ok", reservations, cost, OptOk(<<>>))

(* every instance type string up to MaxTypeLen characters *)
ClassifyWorlds ==
    {Quiet(<< WithIds(<<Inst(t, MetricOk(<<8>>))>>) >>, CostOk(<<>>)) :
        t \in SeqsUpTo(TypeChars, MaxTypeLen)}
    \cup
    {Quiet(<< WithIds(<<Inst(a, MetricOk(<<8>>)), Inst(b, MetricOk(<<8>>))>>) >>,
           CostOk(<<>>)) :
        a \in {T4gMicro, M5Large}, b \in {T4gLarge, M5Micro}}

(* every series of up to MaxSamples daily averages *)
SampleWorlds ==
    {Quiet(<< WithIds(<<Inst(M5Large, MetricOk(dps))>>) >>, CostOk(<<>>)) :
        dps \in SeqsUpTo(CpuValues, MaxSamples)}

FleetInstances ==
    {Inst(T4gMicro, MetricOk(<<2>>)),
     Inst(M5Large, MetricOk(<<8, 8>>)),
     Inst(M5Large, MetricClientError("AccessDenied")),
     Inst(C6gXlarge, MetricClientError("Throttling")),
     Inst(M5Large, MetricOtherError)}

(* one reservation holding all, or one reservation per instance *)
FleetWorlds ==
    {Quiet(<<WithIds(is)>>, CostOk(<<>>)) :
        is \in SeqsUpTo(FleetInstances, MaxInstances)}
    \cup
    {Quiet([k \in 1..Len(is) |-> <<WithIds(is)[k]>>], CostOk(<<>>)) :
        is \in SeqsUpTo(FleetInstances, MaxInstances) \ {<<>>}}

(* GroupBy SERVICE: within one bucket a service has one group *)
DistinctKeys(gs) == \A i, j \in DOMAIN gs : gs[i].Key = gs[j].Key => i = j

CostGroups ==
    {Group(NameEC2, 120000), Group(NameEC2, 1000), Group(NameS3, 30000),
     Group(NameS3, 1000), Group(NameSupport, 5), Group(NameTax, 10),
     Group(NameRDS, 11), Group(NameRDS, 4000)}

Padding == [k \in 1..9 |-> Group(PadName(k), 1000 * (((k * 4) % 9) + 1))]

(* up to MaxGroups services, alone or behind nine others, in one bucket or two *)
CostWorlds ==
    {Quiet(<<>>, CostOk(<<pad \o gs>> \o more)) :
        gs \in {g \in SeqsUpTo(CostGroups, MaxGroups) : DistinctKeys(g)},
        pad \in {<<>>, Padding},
        more \in {<<>>, << <<Group(NameEC2, 30000)>> >>}}

NameLambda == <<"A", "W", "S", " ", "L", "a", "m", "b", "d", "a">>
NameDynamoDB == <<"D", "y", "n", "a", "m", "o", "D", "B">>
NameLowerEc2 == <<"e", "c", "2">>
NameS3RDS == <<"S", "3", " ", "R", "D", "S">>

NamedGroups ==
    {Group(NameEC2, 600), Group(NameRDS, 500), Group(NameS3, 600),
     Group(NameLambda, 500), Group(NameDynamoDB, 600), Group(NameLowerEc2, 500),
     Group(NameS3RDS, 600), Group(NameEC2, 10)}

(* up to MaxNames named services, ranked behind 0 or 4 costlier others *)
SuggestWorlds ==
    {Quiet(<<>>, CostOk(<<SubSeq(Padding, 1, k) \o gs>>)) :
        gs \in {g \in SeqsUpTo(NamedGroups, MaxNames) : DistinctKeys(g)} \ {<<>>},
        k \in {0, 4}}

Worlds == PipelineWorlds \cup ClassifyWorlds \cup SampleWorlds \cup FleetWorlds
          \cup CostWorlds \cup SuggestWorlds

(* ------------------------------ the run ------------------------------- *)
Init ==
    /\ env \in Worlds
    /\ pc = "main"
    /\ out = <<>>
    /\ calls = <<>>
    /\ exit_status = -1
    /\ raised = "None"
    /\ instances = <<>>
    /\ idx = 1
    /\ graviton_count = 0
    /\ x86_count = 0
    /\ low_utilization = <<>>
    /\ services = <<>>
    /\ total_cost = 0

Next ==
    \/ main_header
    \/ create_session
    \/ check_ec2_utilization
    \/ check_ec2_utilization_instance
    \/ check_ec2_utilization_summary
    \/ check_cost_by_service
    \/ check_compute_optimizer
    \/ check_sustainability_tips
    \/ main_footer

Spec == Init /\ [][Next]_vars

(* ====================================================================== *)
(* Properties                                                             *)
(* ====================================================================== *)
HasTok(sec, kind) == \E i \in DOMAIN out : out[i].sec = sec /\ out[i].kind = kind

Exited == pc = "exited"

(* create_session returned a session *)
SessionAcquired == HasTok("session", "identity")

DataQueries == {"ec2:DescribeInstances", "cloudwatch:GetMetricStatistics",
                "ce:GetCostAndUsage", "compute-optimizer:GetRecommendationSummaries"}

Issued(q) == \E i \in DOMAIN calls : calls[i] = q

(* the sections of the report in the order they appear, a run of lines of *)
(* one section counted once; the identity lines create_session writes are *)
(* not a report section                                                   *)
RECURSIVE Collapse(_)
Collapse(s) ==
    IF Len(s) <= 1 THEN s
    ELSE IF s[1] = s[2] THEN Collapse(Tail(s))
    ELSE <<s[1]>> \o Collapse(Tail(s))

ReportLines == SelectSeq(out, LAMBDA t : t.sec # "session")

ReportSections == Collapse([i \in DOMAIN ReportLines |-> ReportLines[i].sec])

CostLines == SelectSeq(out, LAMBDA t : t.sec = "cost")

(* C1: once the session is acquired, no failure of a query of the          *)
(* utilization, cost or recommendation phase crosses the phase boundary:   *)
(* a run that has ended has run every later phase and has rendered the     *)
(* checklist and the footer.                                               *)
C1_PhaseFailuresIsolated ==
    (Exited /\ SessionAcquired) =>
        /\ HasTok("util", "banner")
        /\ HasTok("cost", "banner") \/ HasTok("cost", "skipped")
        /\ HasTok("rec", "banner")
        /\ HasTok("checklist", "banner")
        /\ HasTok("footer", "banner")

(* C2: the process ends with a non-zero status only when session           *)
(* acquisition failed; with a session, whatever the data queries do, main  *)
(* reaches the footer and the status is success.                           *)
C2_NonZeroOnlyWithoutSession ==
    (Exited /\ SessionAcquired) =>
        (exit_status = 0 /\ HasTok("footer", "banner"))

(* C3: when session acquisition fails for any reason, the run ends with a  *)
(* non-zero status, remediation guidance is printed and no inventory,      *)
(* metrics, cost or recommendation query is issued.                        *)
C3_SessionFailureIsFatalWithGuidance ==
    (Exited /\ env.session # "ok") =>
        /\ exit_status # 0
        /\ HasTok("session", "credentials_help") \/ HasTok("session", "profile_help")
        /\ \A q \in DataQueries : ~Issued(q)

(* C4: a completed run emits header, utilization, cost, recommendation,    *)
(* checklist, footer in this order, each section in one piece; with the    *)
(* skip-cost flag the cost section is the "skipped" notice alone, at the   *)
(* same position.                                                          *)
C4_SectionOrder ==
    (Exited /\ exit_status = 0) =>
        /\ ReportSections = <<"header", "util", "cost", "rec", "checklist", "footer">>
        /\ env.skip_cost => CostLines = <<Tok("cost", "skipped", 0)>>
        /\ ~env.skip_cost => /\ CostLines[1] = Tok("cost", "banner", 0)
                             /\ ~HasTok("cost", "skipped")

C4_Witness ==
    /\ Exited /\ exit_status = 0
    /\ env.skip_cost
    /\ HasTok("util", "row")
    /\ HasTok("rec", "finding")

(* the inventory the account returns, and the rows rendered so far *)
Running == Flatten(env.Reservations)

RowOf(k) == {i \in DOMAIN out : /\ out[i].sec = "util" /\ out[i].kind = "row"
                                /\ out[i].v.id = k}

Rows == {i \in DOMAIN out : out[i].sec = "util" /\ out[i].kind = "row"}

MetricQueries == Cardinality({i \in DOMAIN calls :
                                 calls[i] = "cloudwatch:GetMetricStatistics"})

(* the loop over the instances has been entered *)
InLoopOrPast == HasTok("util", "count")

(* C5: a failing metrics query never aborts a row: every instance whose    *)
(* metrics query was issued gets its row (with a notice and no aggregate   *)
(* when the query failed), and once the run has ended every running        *)
(* instance has its row and the run totals are rendered.                   *)
C5_MetricFailureKeepsRows ==
    InLoopOrPast =>
        /\ pc = "ec2_loop" =>
              \A k \in 1..MetricQueries : RowOf(k) # {}
        /\ \A k \in 1..Len(Running) :
              (RowOf(k) # {} /\ Running[k].metric.kind # "ok") =>
                 /\ \A i \in RowOf(k) : ~out[i].v.cpu_avail
                 /\ \E i \in DOMAIN out :
                       /\ out[i].kind \in {"notice_permission", "notice_failure"}
                       /\ out[i].v = k
        /\ Exited =>
              /\ \A k \in 1..Len(Running) : RowOf(k) # {}
              /\ HasTok("util", "summary")

(* family: the characters before the first "."; ARM by its name *)
FamilyLen(t) ==
    CHOOSE n \in 0..Len(t) : /\ \A j \in 1..n : t[j] # "."
                             /\ n = Len(t) \/ t[n + 1] = "."

ArmByName(t) ==
    LET n == FamilyLen(t)
    IN  \/ n >= 1 /\ t[n] = "g"
        \/ \E i \in 2..n : t[i] = "g"

Flagged(k) == \E i \in DOMAIN low_utilization : low_utilization[i] = k

Warned(k) == \E i \in DOMAIN out : /\ out[i].sec = "util"
                                   /\ out[i].kind = "low_warning"
                                   /\ out[i].v = k

MeanBelowThreshold(m) ==
    /\ m.kind = "ok"
    /\ Len(m.Datapoints) >= 1
    /\ SumSeq(m.Datapoints) < 5 * Len(m.Datapoints)

(* C7: an instance is flagged (warned about, and counted among the low-    *)
(* utilization instances) iff its metrics query succeeded with at least    *)
(* one sample and the mean of the samples is strictly below 5.             *)
C7_LowUtilizationFlag ==
    InLoopOrPast =>
        /\ \A k \in 1..Len(Running) :
              /\ Flagged(k) <=> Warned(k)
              /\ Flagged(k) <=> (k < idx /\ MeanBelowThreshold(Running[k].metric))
        /\ \A i \in DOMAIN out :
              (out[i].sec = "util" /\ out[i].kind = "low_count") =>
                 out[i].v = Cardinality({k \in 1..Len(Running) :
                                            MeanBelowThreshold(Running[k].metric)})

C7_Witness ==
    /\ Exited /\ exit_status = 0
    /\ \E k \in 1..Len(Running) :
          /\ Running[k].metric.kind = "ok"
          /\ Len(Running[k].metric.Datapoints) >= 2
          /\ SumSeq(Running[k].metric.Datapoints) = 5 * Len(Running[k].metric.Datapoints)
          /\ RowOf(k) # {}
          /\ ~Flagged(k)

ArmRunning == Cardinality({k \in 1..Len(Running) : ArmByName(Running[k].InstanceType)})

(* C8: in the run totals the ARM count plus the x86 count is the number of *)
(* running instances, the percentage shown is ARM / (ARM + x86) * 100, and *)
(* the suggestion to move to ARM is there iff that percentage is strictly  *)
(* below 50.                                                               *)
C8_RunTotals ==
    \A i \in DOMAIN out :
        (out[i].sec = "util" /\ out[i].kind = "summary") =>
            LET n == Len(Running) IN
            /\ out[i].v.arm + out[i].v.x86 = n
            /\ out[i].v.arm = ArmRunning
            /\ i < Len(out) /\ out[i + 1].kind = "ratio"
            /\ 2 * (out[i + 1].v * n - ArmRunning * 1000) <= n
            /\ 2 * (ArmRunning * 1000 - out[i + 1].v * n) <= n
            /\ HasTok("util", "suggest_arm") <=> 2 * ArmRunning < n

C8_Witness ==
    /\ HasTok("util", "summary")
    /\ Len(Running) >= 2
    /\ 2 * ArmRunning = Len(Running)
    /\ ~HasTok("util", "suggest_arm")

(* the groups the cost query returns, bucket after bucket *)
Returned == Flatten(env.cost.ResultsByTime)

(* the cost phase got its answer and evaluated it *)
CostAnalysed == HasTok("cost", "total") \/ HasTok("cost", "no_cost")

TimesRecorded(name, cost) ==
    Cardinality({i \in DOMAIN services : services[i] = [name |-> name, cost |-> cost]})

TimesReturned(name, cost) ==
    Cardinality({i \in DOMAIN Returned : Returned[i] = Group(name, cost)})

MaterialSum == SumSeq([i \in DOMAIN Returned |->
                          IF Returned[i].Amount > 10 THEN Returned[i].Amount ELSE 0])

CostRowLines == SelectSeq(out, LAMBDA t : t.sec = "cost" /\ t.kind = "row")

RenderedSum == SumSeq([i \in DOMAIN CostRowLines |-> CostRowLines[i].v.pct_tenths])

(* the percentage shown is within 0.05 of cost / total * 100 *)
WithinRounding(row) ==
    /\ 2 * (row.pct_tenths * total_cost - row.cost * 1000) <= total_cost
    /\ 2 * (row.cost * 1000 - row.pct_tenths * total_cost) <= total_cost

(* C10 as stated: with a total above 0, every percentage shown is          *)
(* cost / total * 100 within rounding, and the percentages shown (one      *)
(* decimal each) add up to at most 100.                                    *)
C10_RenderedSumAtMost100 ==
    (HasTok("cost", "total") /\ total_cost > 0) =>
        /\ \A i \in DOMAIN CostRowLines : WithinRounding(CostRowLines[i].v)
        /\ RenderedSum <= 1000

(* C10 amended: with a total above 0, every percentage shown is within     *)
(* 0.05 of cost / total * 100, and the percentages shown add up to at most *)
(* 100 plus 0.05 for each entry shown.                                     *)
C10_RenderedWithinRounding ==
    (HasTok("cost", "total") /\ total_cost > 0) =>
        /\ \A i \in DOMAIN CostRowLines : WithinRounding(CostRowLines[i].v)
        /\ 2 * RenderedSum <= 2000 + Len(CostRowLines)

C10_Witness ==
    /\ HasTok("cost", "total")
    /\ total_cost > 0
    /\ RenderedSum > 1000

(* the known substrings, in the order of the chain *)
Keywords == <<[chars |-> <<"E", "C", "2">>, label |-> "EC2"],
              [chars |-> <<"R", "D", "S">>, label |-> "RDS"],
              [chars |-> <<"S", "3">>, label |-> "S3"],
              [chars |-> <<"L", "a", "m", "b", "d", "a">>, label |-> "Lambda"],
              [chars |-> <<"D", "y", "n", "a", "m", "o", "D", "B">>, label |-> "DynamoDB"]>>

Occurs(w, name) ==
    \E off \in 0..(Len(name) - Len(w)) : \A j \in 1..Len(w) : name[off + j] = w[j]

Matching(name) == {k \in DOMAIN Keywords : Occurs(Keywords[k].chars, name)}

(* the ranks, among the first five, whose service name holds a keyword *)
SuggestingRanks == {r \in DOMAIN services : r <= 5 /\ Matching(services[r].name) # {}}

NthSuggestingRank(i) ==
    CHOOSE r \in SuggestingRanks :
        Cardinality({q \in SuggestingRanks : q < r}) = i - 1

SuggestionLines == SelectSeq(out, LAMBDA t : t.sec = "cost" /\ t.kind = "suggestion")

(* C11: the suggestion lines are, in rank order, one line for each of the  *)
(* first 5 ranked entries whose service name holds one of EC2, RDS, S3,    *)
(* Lambda, DynamoDB (case-sensitive), the line of the first of these in    *)
(* that order; entries ranked 6th or lower, entries without a keyword and  *)
(* entries at or below the floor produce none.                             *)
C11_SuggestionsForTopFive ==
    HasTok("cost", "suggestions_banner") =>
        /\ Len(SuggestionLines) = Cardinality(SuggestingRanks)
        /\ \A i \in DOMAIN SuggestionLines :
              LET e == services[NthSuggestingRank(i)]
                  first == CHOOSE k \in Matching(e.name) :
                              \A m \in Matching(e.name) : k <= m
              IN  /\ SuggestionLines[i].v.for = e.name
                  /\ SuggestionLines[i].v.kw = Keywords[first].label
                  /\ e.cost > 10

C11_Witness ==
    /\ HasTok("cost", "suggestions_banner")
    /\ Len(services) >= 6
    /\ Matching(services[6].name) # {}
    /\ Cardinality(Matching(services[5].name)) >= 2
    /\ Len(SuggestionLines) = 1
    /\ \E i \in DOMAIN Returned : Returned[i].Amount <= 10 /\ Matching(Returned[i].Key) # {}

UtilLines == SelectSeq(out, LAMBDA t : t.sec = "util")

(* C12: an inventory query that succeeds with no running instance renders  *)
(* the "no instances" line and neither an error, a row nor run totals; a   *)
(* cost query that succeeds with no entry above 0.01 renders the "no cost" *)
(* line and neither an error, a table nor suggestions; the run goes on to  *)
(* the next phase as after any other result.                               *)
C12_EmptyIsNotAnError ==
    /\ (HasTok("util", "banner") /\ env.describe = "ok" /\ Len(Running) = 0) =>
          /\ UtilLines = <<Tok("util", "banner", 0), Tok("util", "no_instances", 0)>>
          /\ pc \in {"cost", "optimizer", "tips", "footer", "exited"}
          /\ pc = "cost" => (raised = "None" /\ exit_status = -1)
    /\ HasTok("util", "no_instances") => (env.describe = "ok" /\ Len(Running) = 0)
    /\ (HasTok("cost", "banner") /\ env.cost.kind = "ok"
        /\ \A i \in DOMAIN Returned : Returned[i].Amount <= 10) =>
          /\ CostLines = <<Tok("cost", "banner", 0), Tok("cost", "no_cost", 0)>>
          /\ pc \in {"optimizer", "tips", "footer", "exited"}
          /\ pc = "optimizer" => (raised = "None" /\ exit_status = -1)
    /\ HasTok("cost", "no_cost") =>
          (env.cost.kind = "ok" /\ \A i \in DOMAIN Returned : Returned[i].Amount <= 10)
    /\ (Exited /\ raised = "None"
        /\ (HasTok("util", "no_instances") \/ HasTok("cost", "no_cost"))) =>
          /\ exit_status = 0
          /\ HasTok("rec", "banner")
          /\ HasTok("checklist", "banner")
          /\ HasTok("footer", "banner")

C12_Witness ==
    /\ Exited /\ exit_status = 0
    /\ HasTok("util", "no_instances")
    /\ HasTok("cost", "no_cost")
    /\ Len(Returned) >= 2
    /\ HasTok("footer", "banner")

RecLines == SelectSeq(out, LAMBDA t : t.sec = "rec")

OptInRefused == env.optimizer.kind = "ClientError"
                /\ env.optimizer.code = "OptInRequiredException"

NoSummaries == env.optimizer.kind = "ok"
               /\ Len(env.optimizer.recommendationSummaries) = 0

(* C13: when the optimizer query fails with OptInRequiredException or      *)
(* succeeds with no summaries, the recommendation section is the banner,   *)
(* the "not enabled" notice and the opt-in instructions, with no resource  *)
(* type and no count; the run goes on to the checklist and the footer and  *)
(* ends with status 0.                                                     *)
C13_NotEnabledIsNotFatal ==
    (HasTok("rec", "banner") /\ (OptInRefused \/ NoSummaries)) =>
        /\ Len(RecLines) = 3
        /\ RecLines[1] = Tok("rec", "banner", 0)
        /\ RecLines[2] = IF OptInRefused THEN Tok("rec", "not_enabled", 0)
                         ELSE Tok("rec", "not_enabled_or_no_data", 0)
        /\ RecLines[3] = Tok("rec", "opt_in_howto", 0)
        /\ raised = "None"
        /\ pc \in {"tips", "footer", "exited"}
        /\ pc = "footer" => HasTok("checklist", "banner")
        /\ Exited => /\ exit_status = 0
                     /\ HasTok("checklist", "banner")
                     /\ HasTok("footer", "banner")

C13_Witness ==
    /\ Exited /\ exit_status = 0
    /\ OptInRefused
    /\ HasTok("rec", "not_enabled")
    /\ HasTok("util", "row")
    /\ HasTok("cost", "row")
    /\ out[Len(out)] = Tok("footer", "banner", 0)

(* what a service cost over the whole queried window *)
WindowCost(name) ==
    SumSeq([i \in DOMAIN Returned |->
               IF Returned[i].Key = name THEN Returned[i].Amount ELSE 0])

(* C14: each service name occurs at most once among the recorded entries,  *)
(* and the cost of an entry is what the service cost over the whole 30-day *)
(* window.                                                                 *)
C14_OneEntryPerService ==
    CostAnalysed =>
        /\ \A i, j \in DOMAIN services :
              services[i].name = services[j].name => i = j
        /\ \A i \in DOMAIN services :
              services[i].cost = WindowCost(services[i].name)

(* the returned groups above the floor, in query order *)
Material == SelectSeq(Returned, LAMBDA g : g.Amount > 10)

(* the rank of the i-th of them: behind every costlier one, and behind the *)
(* equally costly ones returned before it                                  *)
RankOf(i) ==
    1 + Cardinality({j \in DOMAIN Material : Material[j].Amount > Material[i].Amount})
      + Cardinality({j \in DOMAIN Material :
                        j < i /\ Material[j].Amount = Material[i].Amount})

(* C15: the table shows the first min(10, n) of the n recorded entries in  *)
(* the order of non-increasing cost, entries of equal cost in the order    *)
(* the query returned them; sorting the ranked list again changes nothing. *)
C15_StableRankedTopTen ==
    HasTok("cost", "total") =>
        /\ Len(services) = Len(Material)
        /\ \A i \in DOMAIN Material :
              services[RankOf(i)] = [name |-> Material[i].Key,
                                     cost |-> Material[i].Amount]
        /\ \A k \in 1..(Len(services) - 1) : services[k].cost >= services[k + 1].cost
        /\ Len(CostRowLines) = IF Len(services) < 10 THEN Len(services) ELSE 10
        /\ \A k \in DOMAIN CostRowLines :
              /\ CostRowLines[k].v.name = services[k].name
              /\ CostRowLines[k].v.cost = services[k].cost
        /\ SortByCostDesc(services) = services

C15_Witness ==
    /\ HasTok("cost", "total")
    /\ Len(services) > 10
    /\ Len(CostRowLines) = 10
    /\ \E i, j \in DOMAIN Material :
          /\ i < j
          /\ Material[i].Amount = Material[j].Amount
          /\ RankOf(j) <= 10
    /\ \E i, j \in DOMAIN Material : i < j /\ RankOf(j) < RankOf(i)

====
